---- MODULE Spec2Model ----
(***************************************************************************)
(* The UTXO runtime module of runtime/src/utxo.rs as a state machine: the  *)
(* three storage items, the dispatchable execute, the on_finalize hook and *)
(* the lock_utxo / unlock_utxo helpers.                                    *)
(***************************************************************************)
EXTENDS Integers, Sequences, FiniteSets, TLC

VARIABLES UnspentOutputs, DustTotal, LockedOutputs, block_number, call

vars == <<UnspentOutputs, DustTotal, LockedOutputs, block_number, call>>

(***************************************************************************)
(* Bounds.  Value is u128 in the source; the model keeps the arithmetic    *)
(* (checked addition, wrapping subtraction) in a narrower width.           *)
(***************************************************************************)
MaxValue == 3

MaxBlock == 1

Value == 0..MaxValue

Modulus == MaxValue + 1

BlockNumber == 0..MaxBlock

(***************************************************************************)
(* Data types                                                              *)
(***************************************************************************)
ALICE_KEY == 1

\* Public keys (H256): Alice's and one other key pair's.
PubKeys == {ALICE_KEY, ALICE_KEY + 1}

\* A signature is modelled by the key pair that produced it over the input's
\* parent_output; ed25519_verify accepts it for that public key only.
Signature == PubKeys

ed25519_verify(signature, pubkey) == signature = pubkey

TransactionOutput == [value : Value, pubkey : PubKeys, salt : BlockNumber]

\* BlakeTwo256::hash_of on a TransactionOutput: a digest determined by the
\* three fields, one digest per output; digest 0 is H256::default(), the
\* digest of no output.
hash_of(u) ==
    1 + u.salt + (MaxBlock + 1) * ((u.pubkey - ALICE_KEY) + Cardinality(PubKeys) * u.value)

H256 == 0..((MaxBlock + 1) * Cardinality(PubKeys) * (MaxValue + 1))

TransactionInput == [parent_output : H256, signature : Signature]

LockStatus ==
    {[kind |-> "Locked", until |-> 0]}
        \cup [kind : {"LockedUntil"}, until : 0..(MaxBlock + 1)]

\* Option<BlockNumber>: None is the empty sequence, Some(b) the sequence <<b>>.
None == <<>>

Some(b) == <<b>>

OptionBlockNumber == {None} \cup {Some(b) : b \in 0..(MaxBlock + 1)}

Origins == {"INHERENT", "SIGNED"}

(***************************************************************************)
(* Storage maps: a map is a function on the set of keys that exist.        *)
(***************************************************************************)
exists(map, key) == key \in DOMAIN map

insert(map, key, val) ==
    [k \in (DOMAIN map) \cup {key} |-> IF k = key THEN val ELSE map[k]]

remove(map, key) == [k \in (DOMAIN map) \ {key} |-> map[k]]

EmptyMap == [k \in {} |-> 0]

(***************************************************************************)
(* Genesis                                                                 *)
(***************************************************************************)
\* alice_utxo(): the maximal value, Alice's key, salt 0.
alice_utxo == [value |-> MaxValue, pubkey |-> ALICE_KEY, salt |-> 0]

\* alice_utxo_100(): a smaller value, Alice's key, salt 0.
alice_utxo_100 == [value |-> MaxValue - 1, pubkey |-> ALICE_KEY, salt |-> 0]

\* GenesisConfig.initial_utxo of new_test_ext
initial_utxo == <<alice_utxo, alice_utxo_100>>

RECURSIVE build(_, _)
\* UnspentOutputs build: every genesis output under its own digest.
build(config, map) ==
    IF config = <<>> THEN map
    ELSE build(Tail(config), insert(map, hash_of(Head(config)), Head(config)))

(***************************************************************************)
(* Transaction verification and the ledger update                          *)
(***************************************************************************)
\* Value subtraction in the width of Value (release builds wrap).
wrapping_sub(a, b) == (a - b + Modulus) % Modulus

\* ensure_inherent(origin)
ensure_inherent(origin) == origin = "INHERENT"

RECURSIVE stored_total(_)
\* The total value of the stored outputs a sequence of inputs refers to.
stored_total(inputs) ==
    IF inputs = <<>> THEN 0
    ELSE (IF exists(UnspentOutputs, Head(inputs).parent_output)
          THEN UnspentOutputs[Head(inputs).parent_output].value
          ELSE 0) + stored_total(Tail(inputs))

\* verify_transaction totalling the inputs (within Value) and not the outputs.
verify_transaction_input_total(transaction) ==
    [tag |-> "Totals",
     input |-> IF stored_total(transaction.inputs) > MaxValue THEN MaxValue
               ELSE stored_total(transaction.inputs),
     output |-> 0]

\* verify_transaction: the body in the source is the placeholder that accepts
\* every transaction with both totals 0.
verify_transaction(transaction) == [tag |-> "Totals", input |-> 0, output |-> 0]

RECURSIVE remove_inputs(_, _)
\* for input in &transaction.inputs { UnspentOutputs::remove(input.parent_output) }
remove_inputs(inputs, map) ==
    IF inputs = <<>> THEN map
    ELSE remove_inputs(Tail(inputs), remove(map, Head(inputs).parent_output))

RECURSIVE insert_outputs_default_key(_, _)
\* the insert loop of update_storage keyed by H256::default() and not by the
\* digest of the output.
insert_outputs_default_key(outputs, map) ==
    IF outputs = <<>> THEN map
    ELSE insert_outputs_default_key(Tail(outputs), insert(map, 0, Head(outputs)))

RECURSIVE insert_outputs(_, _)
\* for output in &transaction.outputs { UnspentOutputs::insert(hash_of(output), output) }
insert_outputs(outputs, map) ==
    IF outputs = <<>> THEN map
    ELSE insert_outputs(Tail(outputs), insert(map, hash_of(Head(outputs)), Head(outputs)))

\* update_storage with the two loops in the other order: the outputs are
\* inserted first and the inputs removed after them.
update_storage_insert_first(transaction, dust, utxo, dust_total) ==
    IF dust_total + dust > MaxValue
    THEN [result |-> "Dust overflow", UnspentOutputs |-> utxo, DustTotal |-> dust_total]
    ELSE [result |-> "Ok",
          UnspentOutputs |->
              remove_inputs(transaction.inputs, insert_outputs(transaction.outputs, utxo)),
          DustTotal |-> dust_total + dust]

\* update_storage(transaction, dust) on the storage (utxo, dust_total): the
\* result and the storage it leaves.
update_storage(transaction, dust, utxo, dust_total) ==
    IF dust_total + dust > MaxValue
    THEN [result |-> "Dust overflow", UnspentOutputs |-> utxo, DustTotal |-> dust_total]
    ELSE [result |-> "Ok",
          UnspentOutputs |->
              insert_outputs(transaction.outputs, remove_inputs(transaction.inputs, utxo)),
          DustTotal |-> dust_total + dust]

\* execute with the origin checked only after the storage was updated.
dispatch_execute_late_origin(origin, transaction, utxo, dust_total) ==
    LET check == verify_transaction(transaction)
        r == update_storage(transaction, wrapping_sub(check.input, check.output),
                            utxo, dust_total)
    IN  IF ~ensure_inherent(origin)
        THEN [r EXCEPT !.result = "bad origin: expected to be an inherent origin"]
        ELSE r

\* execute(origin, transaction) on the storage (utxo, dust_total).
dispatch_execute(origin, transaction, utxo, dust_total) ==
    LET unchanged(msg) ==
            [result |-> msg, UnspentOutputs |-> utxo, DustTotal |-> dust_total]
        check == verify_transaction(transaction)
    IN  IF ~ensure_inherent(origin)
        THEN unchanged("bad origin: expected to be an inherent origin")
        ELSE IF check.tag = "Err" THEN unchanged(check.msg)
        ELSE IF check.tag = "MissingInputs" THEN unchanged("Invalid transaction inputs")
        ELSE update_storage(transaction, wrapping_sub(check.input, check.output),
                            utxo, dust_total)

(***************************************************************************)
(* Dust redistribution                                                     *)
(***************************************************************************)
RECURSIVE mint_shares_stop_on_collision(_, _, _, _)
\* the loop of spend_dust leaving the loop at the first digest that is already
\* a key of the map.
mint_shares_stop_on_collision(authorities, share, salt, map) ==
    IF authorities = <<>> THEN map
    ELSE LET utxo == [value |-> share, pubkey |-> Head(authorities), salt |-> salt]
             hash == hash_of(utxo)
         IN  IF exists(map, hash) THEN map
             ELSE mint_shares_stop_on_collision(Tail(authorities), share, salt,
                                                insert(map, hash, utxo))

RECURSIVE mint_shares(_, _, _, _)
\* the loop of spend_dust: one output per authority, skipped when its digest
\* is already a key of the map.
mint_shares(authorities, share, salt, map) ==
    IF authorities = <<>> THEN map
    ELSE LET utxo == [value |-> share, pubkey |-> Head(authorities), salt |-> salt]
             hash == hash_of(utxo)
         IN  mint_shares(Tail(authorities), share, salt,
                         IF ~exists(map, hash) THEN insert(map, hash, utxo) ELSE map)

\* spend_dust without the put of the remainder.
spend_dust_no_put(authorities, utxo, dust_total, now) ==
    LET n == Len(authorities)
        dust_per_authority == dust_total \div n
    IN  IF n = 0
        THEN [result |-> "panic: No authorities", UnspentOutputs |-> utxo, DustTotal |-> 0]
        ELSE IF dust_per_authority = 0
        THEN [result |-> "Ok", UnspentOutputs |-> utxo, DustTotal |-> 0]
        ELSE [result |-> "Ok",
              UnspentOutputs |-> mint_shares(authorities, dust_per_authority, now, utxo),
              DustTotal |-> 0]

\* spend_dust(authorities) on the storage (utxo, dust_total) at block `now`.
\* DustTotal::take() clears the stored total before anything else runs.
spend_dust(authorities, utxo, dust_total, now) ==
    LET dust == dust_total
        n == Len(authorities)
        dust_per_authority == dust \div n
        dust_remainder == dust - dust_per_authority * n
    IN  IF n = 0
        THEN [result |-> "panic: No authorities", UnspentOutputs |-> utxo, DustTotal |-> 0]
        ELSE IF dust_per_authority = 0
        THEN [result |-> "Ok", UnspentOutputs |-> utxo, DustTotal |-> 0]
        ELSE [result |-> "Ok",
              UnspentOutputs |-> mint_shares(authorities, dust_per_authority, now, utxo),
              DustTotal |-> dust_remainder]

(***************************************************************************)
(* Locks                                                                   *)
(***************************************************************************)
\* lock_utxo accepting an `until` equal to the current block number.
lock_result_until_now(hash, until, utxo, locked, now) ==
    IF exists(locked, hash)
    THEN [result |-> "utxo is already locked", LockedOutputs |-> locked]
    ELSE IF ~exists(utxo, hash)
    THEN [result |-> "utxo does not exist", LockedOutputs |-> locked]
    ELSE IF until # None
    THEN IF ~(until[1] >= now)
         THEN [result |-> "block number is in the past", LockedOutputs |-> locked]
         ELSE [result |-> "Ok",
               LockedOutputs |->
                   insert(locked, hash, [kind |-> "LockedUntil", until |-> until[1]])]
    ELSE [result |-> "Ok",
          LockedOutputs |-> insert(locked, hash, [kind |-> "Locked", until |-> 0])]

\* lock_utxo(hash, until) on the lock table `locked`.
lock_result(hash, until, utxo, locked, now) ==
    IF exists(locked, hash)
    THEN [result |-> "utxo is already locked", LockedOutputs |-> locked]
    ELSE IF ~exists(utxo, hash)
    THEN [result |-> "utxo does not exist", LockedOutputs |-> locked]
    ELSE IF until # None
    THEN IF ~(until[1] > now)
         THEN [result |-> "block number is in the past", LockedOutputs |-> locked]
         ELSE [result |-> "Ok",
               LockedOutputs |->
                   insert(locked, hash, [kind |-> "LockedUntil", until |-> until[1]])]
    ELSE [result |-> "Ok",
          LockedOutputs |-> insert(locked, hash, [kind |-> "Locked", until |-> 0])]

\* unlock_utxo(hash) on the lock table `locked`: the ensure! is on the
\* absence of the entry.
unlock_result(hash, locked) ==
    IF ~(~exists(locked, hash))
    THEN [result |-> "utxo is not locked", LockedOutputs |-> locked]
    ELSE [result |-> "Ok", LockedOutputs |-> remove(locked, hash)]

(***************************************************************************)
(* Inputs of the operations                                                *)
(***************************************************************************)
\* Outputs a dispatched transaction may name: Alice's, with salt 0, of value
\* zero, one or the maximum.
TxOutput == [value : {0, 1, MaxValue}, pubkey : {ALICE_KEY}, salt : {0}]

\* Digests an input may refer to: those of the outputs above, those of the
\* genesis outputs, and the default digest.
TxDigest ==
    {0} \cup {hash_of(u) : u \in TxOutput}
        \cup {hash_of(initial_utxo[i]) : i \in DOMAIN initial_utxo}

\* Digests lock_utxo and unlock_utxo are called with: the default digest and
\* that of alice_utxo.
LockDigest == {0, hash_of(alice_utxo)}

TxInput == [parent_output : TxDigest, signature : Signature]

\* Sequences of at most two elements of S.
UpToTwo(S) == {<<>>} \cup {<<a>> : a \in S} \cup {<<a, b>> : a \in S, b \in S}

Transaction == [inputs : UpToTwo(TxInput), outputs : UpToTwo(TxOutput)]

\* Transaction::default()
NoTransaction == [inputs |-> <<>>, outputs |-> <<>>]

\* Consensus::authorities()
Authorities == UpToTwo(PubKeys)

Call(op, origin, transaction, hash, until, authorities, result) ==
    [op |-> op, origin |-> origin, transaction |-> transaction, hash |-> hash,
     until |-> until, authorities |-> authorities, result |-> result]

(***************************************************************************)
(* The state machine.  `call` is the call being dispatched, with the       *)
(* result it returns; the caller takes the result before the next call.    *)
(***************************************************************************)
Idle == Call("idle", "INHERENT", NoTransaction, 0, None, <<>>, "Ok")

Init ==
    /\ UnspentOutputs = build(initial_utxo, EmptyMap)
    /\ DustTotal = 0
    /\ LockedOutputs = EmptyMap
    /\ block_number = 0
    /\ call = Idle

execute(origin, transaction) ==
    LET r == dispatch_execute(origin, transaction, UnspentOutputs, DustTotal)
    IN  /\ call = Idle
        /\ UnspentOutputs' = r.UnspentOutputs
        /\ DustTotal' = r.DustTotal
        /\ call' = Call("execute", origin, transaction, 0, None, <<>>, r.result)
        /\ UNCHANGED <<LockedOutputs, block_number>>

on_finalize(authorities) ==
    LET r == spend_dust(authorities, UnspentOutputs, DustTotal, block_number)
    IN  /\ call = Idle
        /\ UnspentOutputs' = r.UnspentOutputs
        /\ DustTotal' = r.DustTotal
        /\ call' = Call("on_finalize", "INHERENT", NoTransaction, 0, None, authorities,
                        r.result)
        /\ UNCHANGED <<LockedOutputs, block_number>>

lock_utxo(hash, until) ==
    LET r == lock_result(hash, until, UnspentOutputs, LockedOutputs, block_number)
    IN  /\ call = Idle
        /\ LockedOutputs' = r.LockedOutputs
        /\ call' = Call("lock_utxo", "INHERENT", NoTransaction, hash, until, <<>>, r.result)
        /\ UNCHANGED <<UnspentOutputs, DustTotal, block_number>>

unlock_utxo(hash) ==
    LET r == unlock_result(hash, LockedOutputs)
    IN  /\ call = Idle
        /\ LockedOutputs' = r.LockedOutputs
        /\ call' = Call("unlock_utxo", "INHERENT", NoTransaction, hash, None, <<>>, r.result)
        /\ UNCHANGED <<UnspentOutputs, DustTotal, block_number>>

\* The system module starts the next block.
initialize_block ==
    /\ call = Idle
    /\ block_number < MaxBlock
    /\ block_number' = block_number + 1
    /\ UNCHANGED <<UnspentOutputs, DustTotal, LockedOutputs, call>>

\* The call returns to its caller.
dispatch_return ==
    /\ call # Idle
    /\ call' = Idle
    /\ UNCHANGED <<UnspentOutputs, DustTotal, LockedOutputs, block_number>>

Next ==
    \/ \E origin \in Origins, transaction \in Transaction : execute(origin, transaction)
    \/ \E authorities \in Authorities : on_finalize(authorities)
    \/ \E hash \in LockDigest, until \in OptionBlockNumber : lock_utxo(hash, until)
    \/ \E hash \in LockDigest : unlock_utxo(hash)
    \/ initialize_block
    \/ dispatch_return

Spec == Init /\ [][Next]_vars

(***************************************************************************)
(* Redistribution on its own: on_finalize on the storage earlier blocks    *)
(* may have left, with any dust total and any set of at most two stored    *)
(* outputs of nonzero value.                                               *)
(***************************************************************************)
StoredOutput == [value : 1..MaxValue, pubkey : PubKeys, salt : BlockNumber]

InitDust ==
    /\ UnspentOutputs \in {build(config, EmptyMap) : config \in UpToTwo(StoredOutput)}
    /\ DustTotal \in Value
    /\ LockedOutputs = EmptyMap
    /\ block_number \in BlockNumber
    /\ call = Idle

NextDust ==
    \/ \E authorities \in Authorities : on_finalize(authorities)
    \/ dispatch_return

SpecDust == InitDust /\ [][NextDust]_vars

(***************************************************************************)
(* The whole module on a ledger that holds dust: the genesis store with    *)
(* any dust total, and every operation.                                    *)
(***************************************************************************)
InitLedger ==
    /\ UnspentOutputs = build(initial_utxo, EmptyMap)
    /\ DustTotal \in Value
    /\ LockedOutputs = EmptyMap
    /\ block_number = 0
    /\ call = Idle

\* Sequences of at most one element of S.
UpToOne(S) == {<<>>} \cup {<<a>> : a \in S}

\* Transactions of at most one input and at most one output.
LedgerTransaction == [inputs : UpToOne(TxInput), outputs : UpToOne(TxOutput)]

NextLedger ==
    \/ \E origin \in Origins, transaction \in LedgerTransaction :
           execute(origin, transaction)
    \/ \E authorities \in Authorities : on_finalize(authorities)
    \/ \E hash \in LockDigest, until \in OptionBlockNumber : lock_utxo(hash, until)
    \/ \E hash \in LockDigest : unlock_utxo(hash)
    \/ initialize_block
    \/ dispatch_return

SpecLedger == InitLedger /\ [][NextLedger]_vars

TypeOK ==
    /\ DOMAIN UnspentOutputs \subseteq H256
    /\ \A h \in DOMAIN UnspentOutputs : UnspentOutputs[h] \in TransactionOutput
    /\ DustTotal \in Value
    /\ DOMAIN LockedOutputs \subseteq H256
    /\ \A h \in DOMAIN LockedOutputs : LockedOutputs[h] \in LockStatus
    /\ block_number \in BlockNumber

(***************************************************************************)
(* Notions the properties are stated in                                    *)
(***************************************************************************)
RECURSIVE output_total(_)
\* The sum of the values of a sequence of outputs, over the integers.
output_total(outputs) ==
    IF outputs = <<>> THEN 0 ELSE Head(outputs).value + output_total(Tail(outputs))

RECURSIVE input_total(_, _)
\* The sum of the values of the stored outputs a sequence of inputs refers to.
input_total(inputs, utxo) ==
    IF inputs = <<>> THEN 0
    ELSE utxo[Head(inputs).parent_output].value + input_total(Tail(inputs), utxo)

Distinct(seq) == \A i, j \in DOMAIN seq : seq[i] = seq[j] => i = j

Parents(inputs) == [i \in DOMAIN inputs |-> inputs[i].parent_output]

Digests(outputs) == [j \in DOMAIN outputs |-> hash_of(outputs[j])]

Range(seq) == {seq[i] : i \in DOMAIN seq}

\* Every input refers to a stored output.
Resolved(inputs, utxo) == \A i \in DOMAIN inputs : exists(utxo, inputs[i].parent_output)

\* Every input carries a signature that verifies against the key of the output
\* it refers to.
Signed(inputs, utxo) ==
    \A i \in DOMAIN inputs :
        ed25519_verify(inputs[i].signature, utxo[inputs[i].parent_output].pubkey)

\* Nonempty, pairwise distinct inputs that resolve to stored outputs without a
\* lock entry, validly signed, their total within Value.
ValidInputs(inputs, utxo, locked) ==
    /\ inputs # <<>>
    /\ Distinct(Parents(inputs))
    /\ Resolved(inputs, utxo)
    /\ \A i \in DOMAIN inputs : ~exists(locked, inputs[i].parent_output)
    /\ Signed(inputs, utxo)
    /\ input_total(inputs, utxo) <= MaxValue

\* Nonempty, pairwise distinct outputs of nonzero value, their total within Value.
ValidOutputs(outputs) ==
    /\ outputs # <<>>
    /\ Distinct(Digests(outputs))
    /\ \A j \in DOMAIN outputs : outputs[j].value # 0
    /\ output_total(outputs) <= MaxValue

\* A transaction that passes every check of the verification contract.
Acceptable(transaction, utxo, locked) ==
    /\ ValidInputs(transaction.inputs, utxo, locked)
    /\ ValidOutputs(transaction.outputs)
    /\ output_total(transaction.outputs) <= input_total(transaction.inputs, utxo)

\* The current call is execute, dispatched from the inherent origin.
Executed == call.op = "execute" /\ call.origin = "INHERENT"

ExecutedOk == Executed /\ call.result = "Ok"

\* This step is a call of execute from the inherent origin.
ExecuteStep == call = Idle /\ call'.op = "execute" /\ call'.origin = "INHERENT"

(***************************************************************************)
(* C1: a successful execute leaves every input's digest absent and every   *)
(* output present under its own digest.                                    *)
(***************************************************************************)
\* C1 as stated, for the transactions verification is meant to accept (valid
\* inputs and outputs, output total at most the input total): after a
\* successful execute(tx), every digest an input of tx refers to is absent
\* from UnspentOutputs and every output of tx is stored under its own digest.
C1_InputsAbsentOutputsPresent ==
    [][(/\ ExecuteStep
        /\ call'.result = "Ok"
        /\ Acceptable(call'.transaction, UnspentOutputs, LockedOutputs))
           => /\ \A i \in DOMAIN call'.transaction.inputs :
                     ~exists(UnspentOutputs', call'.transaction.inputs[i].parent_output)
              /\ \A j \in DOMAIN call'.transaction.outputs :
                     /\ exists(UnspentOutputs', hash_of(call'.transaction.outputs[j]))
                     /\ UnspentOutputs'[hash_of(call'.transaction.outputs[j])]
                            = call'.transaction.outputs[j]]_vars

\* C1 amended: after a successful execute(tx), every digest an input of tx
\* refers to that is not the digest of an output of tx is absent from
\* UnspentOutputs, and every output of tx is stored under its own digest.
C1_SpentUnlessRecreated ==
    ExecutedOk =>
        /\ \A i \in DOMAIN call.transaction.inputs :
               call.transaction.inputs[i].parent_output
                       \notin Range(Digests(call.transaction.outputs))
                   => ~exists(UnspentOutputs, call.transaction.inputs[i].parent_output)
        /\ \A j \in DOMAIN call.transaction.outputs :
               /\ exists(UnspentOutputs, hash_of(call.transaction.outputs[j]))
               /\ UnspentOutputs[hash_of(call.transaction.outputs[j])]
                      = call.transaction.outputs[j]

\* A successful execute of a transaction with two inputs, the first spending
\* alice_utxo and the second an output the transaction creates again.
C1_Witness ==
    /\ ExecutedOk
    /\ Len(call.transaction.inputs) = 2
    /\ call.transaction.outputs # <<>>
    /\ call.transaction.inputs[1].parent_output = hash_of(alice_utxo)
    /\ hash_of(alice_utxo) \notin Range(Digests(call.transaction.outputs))
    /\ call.transaction.inputs[2].parent_output \in Range(Digests(call.transaction.outputs))
    /\ ~exists(UnspentOutputs, hash_of(alice_utxo))

(***************************************************************************)
(* C2: an execute that returns an error changes nothing.                   *)
(***************************************************************************)
\* C2: a step that is a call of execute returning an error leaves
\* UnspentOutputs, DustTotal and LockedOutputs as they were; only a call that
\* returns Ok changes them.
C2_FailedExecuteChangesNothing ==
    [][(call'.op = "execute" /\ call'.result # "Ok")
           => UNCHANGED <<UnspentOutputs, DustTotal, LockedOutputs>>]_vars

\* An execute of a transaction with inputs and outputs has returned an error.
C2_Witness ==
    /\ call.op = "execute"
    /\ call.result # "Ok"
    /\ call.transaction.inputs # <<>>
    /\ call.transaction.outputs # <<>>
    /\ exists(UnspentOutputs, call.transaction.inputs[1].parent_output)

(***************************************************************************)
(* C3 .. C10: the checks of verify_transaction, as the tests of the module *)
(* state them.                                                             *)
(***************************************************************************)
\* C3: execute of a transaction with valid inputs and outputs whose output
\* total exceeds the total of the outputs its inputs refer to fails with
\* "output value must not exceed input value" and creates no output.
C3_Overspend ==
    [][(/\ ExecuteStep
        /\ ValidInputs(call'.transaction.inputs, UnspentOutputs, LockedOutputs)
        /\ ValidOutputs(call'.transaction.outputs)
        /\ output_total(call'.transaction.outputs)
               > input_total(call'.transaction.inputs, UnspentOutputs))
           => /\ call'.result = "output value must not exceed input value"
              /\ UNCHANGED UnspentOutputs]_vars

\* C4: a successful execute of an acceptable transaction adds the input total
\* minus the output total to DustTotal (nothing when the totals are equal).
C4_DustCredited ==
    [][(/\ ExecuteStep
        /\ call'.result = "Ok"
        /\ Acceptable(call'.transaction, UnspentOutputs, LockedOutputs))
           => DustTotal' = DustTotal
                  + (input_total(call'.transaction.inputs, UnspentOutputs)
                         - output_total(call'.transaction.outputs))]_vars

\* C5: execute of a transaction without inputs fails with "no inputs", with or
\* without outputs; with an input and without outputs it fails with "no outputs".
C5_EmptyTransactions ==
    Executed =>
        /\ call.transaction.inputs = <<>> => call.result = "no inputs"
        /\ (call.transaction.inputs # <<>> /\ call.transaction.outputs = <<>>)
               => call.result = "no outputs"

\* C6: execute of a transaction with inputs and outputs in which two inputs
\* refer to the same digest fails with "each input must only be used once",
\* whatever the signatures are.
C6_DuplicateInput ==
    (/\ Executed
     /\ call.transaction.inputs # <<>>
     /\ call.transaction.outputs # <<>>
     /\ ~Distinct(Parents(call.transaction.inputs)))
        => call.result = "each input must only be used once"

\* C7: execute of a transaction with nonempty, pairwise distinct inputs that
\* lists the same output twice fails with "each output must be defined only once".
C7_DuplicateOutput ==
    (/\ Executed
     /\ call.transaction.inputs # <<>>
     /\ Distinct(Parents(call.transaction.inputs))
     /\ ~Distinct(Digests(call.transaction.outputs)))
        => call.result = "each output must be defined only once"

\* C8: execute of a transaction whose inputs are distinct, resolve to unlocked
\* stored outputs, whose outputs are valid, and in which some input's signature
\* does not verify against the key of the output it refers to fails with
\* "signature must be valid", and the stored outputs stay.
C8_InvalidSignature ==
    [][(/\ ExecuteStep
        /\ call'.transaction.inputs # <<>>
        /\ Distinct(Parents(call'.transaction.inputs))
        /\ Resolved(call'.transaction.inputs, UnspentOutputs)
        /\ \A i \in DOMAIN call'.transaction.inputs :
               ~exists(LockedOutputs, call'.transaction.inputs[i].parent_output)
        /\ ValidOutputs(call'.transaction.outputs)
        /\ ~Signed(call'.transaction.inputs, UnspentOutputs))
           => /\ call'.result = "signature must be valid"
              /\ UNCHANGED UnspentOutputs]_vars

\* C9: execute of a transaction with valid inputs and nonempty, distinct
\* outputs one of which has value 0 fails with "output value must be nonzero",
\* so that the output of value 0 is not stored.
C9_ZeroValueOutput ==
    [][(/\ ExecuteStep
        /\ ValidInputs(call'.transaction.inputs, UnspentOutputs, LockedOutputs)
        /\ call'.transaction.outputs # <<>>
        /\ Distinct(Digests(call'.transaction.outputs))
        /\ \E j \in DOMAIN call'.transaction.outputs :
               call'.transaction.outputs[j].value = 0)
           => /\ call'.result = "output value must be nonzero"
              /\ \A h \in DOMAIN UnspentOutputs' : UnspentOutputs'[h].value # 0]_vars

\* C10: execute of a transaction with valid inputs and nonempty, distinct,
\* nonzero outputs whose values sum to more than the maximum Value fails with
\* "output value overflow".
C10_OutputOverflow ==
    [][(/\ ExecuteStep
        /\ ValidInputs(call'.transaction.inputs, UnspentOutputs, LockedOutputs)
        /\ call'.transaction.outputs # <<>>
        /\ Distinct(Digests(call'.transaction.outputs))
        /\ \A j \in DOMAIN call'.transaction.outputs :
               call'.transaction.outputs[j].value # 0
        /\ output_total(call'.transaction.outputs) > MaxValue)
           => call'.result = "output value overflow"]_vars

(***************************************************************************)
(* C11 .. C13: the lock table                                              *)
(***************************************************************************)
\* This step is a call of lock_utxo / of unlock_utxo.
LockStep == call = Idle /\ call'.op = "lock_utxo"

UnlockStep == call = Idle /\ call'.op = "unlock_utxo"

\* C11: while digest d has the entry Locked in LockedOutputs (from a successful
\* lock_utxo(d, None) until an unlock_utxo(d) removes it), every execute of a
\* transaction with an input referring to d fails (stated for transactions
\* that pass every other check), and the output stored under d stays in
\* UnspentOutputs.
C11_LockedNotSpendable ==
    [][\A d \in DOMAIN LockedOutputs :
           (/\ ExecuteStep
            /\ LockedOutputs[d].kind = "Locked"
            /\ d \in Range(Parents(call'.transaction.inputs))
            /\ Acceptable(call'.transaction, UnspentOutputs, EmptyMap))
               => /\ call'.result # "Ok"
                  /\ exists(UnspentOutputs', d)]_vars

\* C12: lock_utxo(d, until) succeeds exactly when d has no entry in
\* LockedOutputs, d is a key of UnspentOutputs and until is absent or greater
\* than the current block number; on success it inserts Locked or
\* LockedUntil(until) for d; it fails with AlreadyLocked, NotFound and
\* PastBlockHeight in this order, and a failure leaves LockedOutputs unchanged.
C12_LockContract ==
    [][LockStep =>
           LET d == call'.hash
               until == call'.until
               free == ~exists(LockedOutputs, d)
               live == exists(UnspentOutputs, d)
               future == until = None \/ until[1] > block_number
           IN  /\ call'.result = "Ok" <=> (free /\ live /\ future)
               /\ (free /\ live /\ future /\ until = None)
                      => LockedOutputs'
                             = insert(LockedOutputs, d, [kind |-> "Locked", until |-> 0])
               /\ (free /\ live /\ future /\ until # None)
                      => LockedOutputs'
                             = insert(LockedOutputs, d,
                                      [kind |-> "LockedUntil", until |-> until[1]])
               /\ ~free => call'.result = "utxo is already locked"
               /\ (free /\ ~live) => call'.result = "utxo does not exist"
               /\ (free /\ live /\ ~future) => call'.result = "block number is in the past"
               /\ call'.result # "Ok" => UNCHANGED LockedOutputs]_vars

\* lock_utxo(d, Some(until)) has succeeded at a block number above 0, after an
\* earlier lock_utxo failed for the past block height.
C12_Witness ==
    /\ call.op = "lock_utxo"
    /\ call.result = "Ok"
    /\ call.until # None
    /\ block_number > 0
    /\ exists(LockedOutputs, call.hash)
    /\ LockedOutputs[call.hash] = [kind |-> "LockedUntil", until |-> call.until[1]]

\* C13: unlock_utxo(d) fails with NotLocked when d has no entry in
\* LockedOutputs, and otherwise succeeds and removes the entry of d (so that d
\* can be locked again).
C13_UnlockContract ==
    [][UnlockStep =>
           /\ ~exists(LockedOutputs, call'.hash) => call'.result = "utxo is not locked"
           /\ exists(LockedOutputs, call'.hash)
                  => /\ call'.result = "Ok"
                     /\ LockedOutputs' = remove(LockedOutputs, call'.hash)]_vars

(***************************************************************************)
(* C14 .. C16, C19: redistribution                                         *)
(***************************************************************************)
\* This step is a call of on_finalize.
FinalizeStep == call = Idle /\ call'.op = "on_finalize"

\* The output spend_dust mints for an authority.
Payout(share, authority, now) == [value |-> share, pubkey |-> authority, salt |-> now]

\* C14: redistribution with n >= 1 authorities and dust D with D div n > 0
\* leaves DustTotal = D - (D div n) * n = D mod n and, for each authority, the
\* output {D div n, authority, block number} stored under its digest.
C14_SharesMinted ==
    [][(/\ FinalizeStep
        /\ Len(call'.authorities) >= 1
        /\ DustTotal \div Len(call'.authorities) > 0)
           => LET n == Len(call'.authorities)
                  share == DustTotal \div n
              IN  /\ DustTotal' = DustTotal - share * n
                  /\ DustTotal' = DustTotal % n
                  /\ \A i \in 1..n :
                         LET utxo == Payout(share, call'.authorities[i], block_number)
                         IN  /\ exists(UnspentOutputs', hash_of(utxo))
                             /\ UnspentOutputs'[hash_of(utxo)] = utxo]_vars

\* Redistribution among two different authorities has left the remainder 1
\* and an output of value 1 for each of them.
C14_Witness ==
    /\ call.op = "on_finalize"
    /\ call.result = "Ok"
    /\ Len(call.authorities) = 2
    /\ call.authorities[1] # call.authorities[2]
    /\ DustTotal = 1
    /\ \A i \in 1..2 :
           /\ exists(UnspentOutputs, hash_of(Payout(1, call.authorities[i], block_number)))
           /\ UnspentOutputs[hash_of(Payout(1, call.authorities[i], block_number))]
                  = Payout(1, call.authorities[i], block_number)

\* C15: redistribution with n >= 1 authorities and dust D < n mints no output
\* and carries D forward: DustTotal afterwards equals D.
C15_SmallDustCarried ==
    [][(/\ FinalizeStep
        /\ Len(call'.authorities) >= 1
        /\ DustTotal < Len(call'.authorities))
           => /\ UNCHANGED UnspentOutputs
              /\ DustTotal' = DustTotal]_vars

\* C16: redistribution with an empty authority list ends in the fatal
\* NoAuthorities outcome, mints no output and leaves DustTotal as it was.
C16_NoAuthorities ==
    [][(FinalizeStep /\ call'.authorities = <<>>)
           => /\ call'.result = "panic: No authorities"
              /\ UNCHANGED UnspentOutputs
              /\ DustTotal' = DustTotal]_vars

\* C19: redistribution with a share above 0 keeps every stored output under
\* its digest unchanged, also one whose digest is that of an authority's
\* payout (that payout is dropped), and adds exactly the payouts of the
\* authorities whose digest was not stored.
C19_NoOverwrite ==
    [][(/\ FinalizeStep
        /\ Len(call'.authorities) >= 1
        /\ DustTotal \div Len(call'.authorities) > 0)
           => LET n == Len(call'.authorities)
                  share == DustTotal \div n
                  payouts == {hash_of(Payout(share, call'.authorities[i], block_number)) :
                                  i \in 1..n}
              IN  /\ \A h \in DOMAIN UnspentOutputs :
                         exists(UnspentOutputs', h) /\ UnspentOutputs'[h] = UnspentOutputs[h]
                  /\ DOMAIN UnspentOutputs' = (DOMAIN UnspentOutputs) \cup payouts]_vars

\* Redistribution of dust 3 to a list naming one authority twice (remainder
\* 1): the second payout met the digest of the first, which is stored.
C19_Witness ==
    /\ call.op = "on_finalize"
    /\ call.result = "Ok"
    /\ Len(call.authorities) = 2
    /\ call.authorities[1] = call.authorities[2]
    /\ DustTotal = 1
    /\ exists(UnspentOutputs, hash_of(Payout(1, call.authorities[1], block_number)))
    /\ UnspentOutputs[hash_of(Payout(1, call.authorities[1], block_number))]
           = Payout(1, call.authorities[1], block_number)

(***************************************************************************)
(* C17, C18, C20: the ledger over sequences of calls                       *)
(***************************************************************************)
\* C17: no execute returns "Dust overflow": the checked addition of the dust
\* to DustTotal in update_storage never overflows.
C17_NoDustOverflow == call.op = "execute" => call.result # "Dust overflow"

\* A successful execute has spent alice_utxo into an output of value 1, after
\* on_finalize ran in an earlier block.
C17_Witness ==
    /\ ExecutedOk
    /\ block_number > 0
    /\ Len(call.transaction.inputs) = 1
    /\ call.transaction.inputs[1].parent_output = hash_of(alice_utxo)
    /\ Len(call.transaction.outputs) = 1
    /\ call.transaction.outputs[1].value = 1
    /\ ~exists(UnspentOutputs, hash_of(alice_utxo))
    /\ DustTotal \in Value

\* C18: execute of a transaction (its inputs distinct, its outputs valid) with
\* an input whose parent_output is not a key of UnspentOutputs fails with
\* "Invalid transaction inputs" and changes no stored output, so a spent
\* digest cannot be spent again before an output with that digest is stored
\* again.
C18_MissingInput ==
    [][(/\ ExecuteStep
        /\ call'.transaction.inputs # <<>>
        /\ Distinct(Parents(call'.transaction.inputs))
        /\ ValidOutputs(call'.transaction.outputs)
        /\ ~Resolved(call'.transaction.inputs, UnspentOutputs))
           => /\ call'.result = "Invalid transaction inputs"
              /\ UNCHANGED UnspentOutputs]_vars

RECURSIVE stored_value(_, _)
\* The sum of the values of the outputs stored under a set of digests.
stored_value(utxo, digests) ==
    IF digests = {} THEN 0
    ELSE LET h == CHOOSE x \in digests : TRUE
         IN  utxo[h].value + stored_value(utxo, digests \ {h})

\* The value in the ledger, over the integers.
TotalValue == stored_value(UnspentOutputs, DOMAIN UnspentOutputs) + DustTotal

\* C20: value is conserved: the sum of the values of the stored outputs plus
\* DustTotal is the same after as before every execute (one that fails, or one
\* of a transaction that passes every check), every redistribution with a
\* nonempty duplicate-free authority list, every lock_utxo and unlock_utxo.
C20_ValueConserved ==
    [][(\/ /\ call = Idle
           /\ call'.op = "execute"
           /\ \/ call'.result # "Ok"
              \/ Acceptable(call'.transaction, UnspentOutputs, LockedOutputs)
        \/ /\ FinalizeStep
           /\ call'.authorities # <<>>
           /\ Distinct(call'.authorities)
        \/ LockStep
        \/ UnlockStep)
           => TotalValue' = TotalValue]_vars

\* Every entry of UnspentOutputs is stored under the digest of its output.
KeyIntegrity == \A k \in DOMAIN UnspentOutputs : k = hash_of(UnspentOutputs[k])

\* C21: store key integrity: in every reachable state every entry (k, o) of
\* UnspentOutputs has k = hash_of(o); after genesis only execute
\* (update_storage) and on_finalize (spend_dust) change UnspentOutputs, and
\* lock_utxo and unlock_utxo change neither UnspentOutputs nor DustTotal.
C21_StoreKeyIntegrity ==
    /\ []KeyIntegrity
    /\ [][/\ UnspentOutputs' # UnspentOutputs
              => call = Idle /\ call'.op \in {"execute", "on_finalize"}
          /\ (LockStep \/ UnlockStep) => UNCHANGED <<UnspentOutputs, DustTotal>>]_vars

\* A lock_utxo has just succeeded on a store that holds a payout minted by
\* spend_dust (only redistribution stores an output of the second key) and an
\* output inserted by update_storage (only a transaction stores an output of
\* value 0), with dust still held.
C21_Witness ==
    /\ call.op = "lock_utxo"
    /\ call.result = "Ok"
    /\ DustTotal > 0
    /\ \E k \in DOMAIN UnspentOutputs : UnspentOutputs[k].pubkey = ALICE_KEY + 1
    /\ exists(UnspentOutputs, hash_of([value |-> 0, pubkey |-> ALICE_KEY, salt |-> 0]))

====
